---- MODULE Spec2Model ----
(***************************************************************************)
(* Model of htmldom/node.py: the Node class, its _childrenlist (a doubly   *)
(* linked list of children threaded through Node.prev / Node.next) and the *)
(* name -> Node index _cmap, with the mutation API insert_before,          *)
(* replace_child, remove_child and the first_child property.               *)
(*                                                                         *)
(* Objects are identified by the order of their construction (1, 2, ...).  *)
(* Every method is an operator from a heap record to a heap record; the    *)
(* statements of the method are applied one after the other, so aliasing   *)
(* (new = ref, node.prev = node, ...) and an exception raised half way     *)
(* through a method leave exactly the fields the code would leave.         *)
(***************************************************************************)
EXTENDS Integers, Sequences, FiniteSets, TLC

\* Bounds of Spec: objects constructed, method calls made, and how many of
\* the objects (the first ones) are ever passed as Node(parent=...).
MaxNodes == 3
MaxCalls == 4
MaxParentArg == 1
\* Bounds of TreeSpec: objects constructed and method calls made.
MaxTreeNodes == 5
MaxTreeCalls == 4
\* Bounds of QuerySpec: objects constructed and method calls made.
MaxQueryNodes == 4
MaxQueryCalls == 4

\* NodeType
DOCUMENT == 1
ELEMENT == 2

\* Python's None; objects are numbered from 1.
None == 0
\* _childrenlist._tmp_head before the first __iter__: __post_init__ assigns
\* _temp_head (another attribute), so _tmp_head does not exist yet.
Unset == -1

VARIABLES
    node_type,  \* Node.node_type
    _count,     \* Node._count: the next value of the shared itertools.count()
    name,       \* Node.name of every constructed object
    parent,     \* Node.parent
    prev,       \* Node.prev
    next,       \* Node.next
    head,       \* Node.children.head
    tail,       \* Node.children.tail
    _tmp_head,  \* Node.children._tmp_head, the cursor of the list
    _cmap,      \* Node._cmap: a dict from names to objects
    last,       \* the latest call: method, receiver, arguments, outcome
    calls       \* number of method calls made so far

vars == <<node_type, _count, name, parent, prev, next, head, tail, _tmp_head, _cmap,
          last, calls>>

Nodes == DOMAIN name

EmptyDict == [k \in {} |-> None]

DictSet(d, k, v) == [x \in (DOMAIN d) \cup {k} |-> IF x = k THEN v ELSE d[x]]

DictPop(d, k) == [x \in (DOMAIN d) \ {k} |-> d[x]]

\* The heap a method works on, with the method's outcome: ret is the value
\* returned, exc the exception that left the method ("none" when it returned).
Heap ==
    [parent |-> parent, prev |-> prev, next |-> next, head |-> head,
     tail |-> tail, _tmp_head |-> _tmp_head, _cmap |-> _cmap,
     ret |-> None, exc |-> "none"]

Raise(h, e) == [h EXCEPT !.exc = e, !.ret = None]

Return(h, v) == [h EXCEPT !.ret = v]

\* make_name that leaves the counter's value out of the name.
make_name_without_count(count) == <<"node", 0>>

\* f"{cls}_{count}" with cls the lower-cased class name.
make_name(count) == <<"node", count>>

-----------------------------------------------------------------------------
\* _childrenlist

isempty(h, self) == h.head[self] = None /\ h.tail[self] = None

__iter__(h, self) == [h EXCEPT !._tmp_head[self] = h.head[self]]

__next__(h, self) ==
    IF h._tmp_head[self] = Unset
    THEN Raise(h, "AttributeError")
    ELSE IF h._tmp_head[self] # None
    THEN LET node == h._tmp_head[self]
         IN  Return([h EXCEPT !._tmp_head[self] = h.next[node]], node)
    ELSE Raise(h, "StopIteration")

\* append that links the node in front of the head instead of after the tail.
children_append_at_head(h, self, node) ==
    LET h1 == [h EXCEPT !.next[node] = h.head[self]]
        h2 == IF h1.head[self] = None
              THEN [h1 EXCEPT !.tail[self] = node]
              ELSE [h1 EXCEPT !.prev[h1.head[self]] = node]
        h3 == [h2 EXCEPT !.head[self] = node]
    IN  [h3 EXCEPT !.prev[node] = None]

children_append(h, self, node) ==
    LET h1 == [h EXCEPT !.prev[node] = h.tail[self]]
        h2 == IF h1.tail[self] = None
              THEN [h1 EXCEPT !.head[self] = node]
              ELSE [h1 EXCEPT !.next[h1.tail[self]] = node]
        h3 == [h2 EXCEPT !.tail[self] = node]
    IN  [h3 EXCEPT !.next[node] = None]

\* children_insert_before without its last statement: the head is not moved
\* when the new node goes before it.
children_insert_before_keeps_head(h, self, ref, new) ==
    LET h1 == [h EXCEPT !.next[new] = ref]
        h2 == [h1 EXCEPT !.prev[new] = h1.prev[ref]]
        h3 == [h2 EXCEPT !.prev[ref] = new]
    IN  IF h3.prev[new] # None
        THEN [h3 EXCEPT !.next[h3.prev[new]] = new]
        ELSE h3

children_insert_before(h, self, ref, new) ==
    LET h1 == [h EXCEPT !.next[new] = ref]
        h2 == [h1 EXCEPT !.prev[new] = h1.prev[ref]]
        h3 == [h2 EXCEPT !.prev[ref] = new]
        h4 == IF h3.prev[new] # None
              THEN [h3 EXCEPT !.next[h3.prev[new]] = new]
              ELSE h3
    IN  IF ref = h4.head[self] THEN [h4 EXCEPT !.head[self] = new] ELSE h4

\* children_delete that unlinks the node on its prev side only when it has a
\* predecessor, and so never advances the head.
children_delete_keeps_head(h, self, node) ==
    LET h1 == IF h.prev[node] # None
              THEN [h EXCEPT !.next[h.prev[node]] = h.next[node]]
              ELSE h
    IN  IF node # h1.tail[self]
        THEN IF h1.next[node] = None
             THEN Raise(h1, "AttributeError")
             ELSE [h1 EXCEPT !.prev[h1.next[node]] = h1.prev[node]]
        ELSE [h1 EXCEPT !.tail[self] = h1.prev[node]]

\* node.prev.next = ... and node.next.prev = ... raise AttributeError when
\* node.prev, respectively node.next, is None.
children_delete(h, self, node) ==
    LET h1 == IF node # h.head[self]
              THEN IF h.prev[node] = None
                   THEN Raise(h, "AttributeError")
                   ELSE [h EXCEPT !.next[h.prev[node]] = h.next[node]]
              ELSE [h EXCEPT !.head[self] = h.next[node]]
    IN  IF h1.exc # "none" THEN h1
        ELSE IF node # h1.tail[self]
        THEN IF h1.next[node] = None
             THEN Raise(h1, "AttributeError")
             ELSE [h1 EXCEPT !.prev[h1.next[node]] = h1.prev[node]]
        ELSE [h1 EXCEPT !.tail[self] = h1.prev[node]]

-----------------------------------------------------------------------------
\* Node

has_children(h, self) == ~ isempty(h, self)

has_as_child(h, self, nm) == nm \in DOMAIN h._cmap[self]

\* has_as_child called with a Node: the node's name is looked up.
has_as_child_node(h, self, node) == has_as_child(h, self, name[node])

\* fetch_child_by_name that hands back the first child whatever the name.
fetch_child_by_name_any_name(h, self, nm) == h.head[self]

fetch_child_by_name(h, self, nm) ==
    IF nm \in DOMAIN h._cmap[self] THEN h._cmap[self][nm] ELSE None

\* The decorators: body is the heap the wrapped method produces.
children_required(h, self, body) ==
    IF has_children(h, self) = TRUE THEN body ELSE Return(h, None)

\* child_existence_required that only asks whether the receiver has children.
child_existence_required_any_child(h, self, child, body) ==
    IF has_children(h, self) THEN body ELSE Raise(h, "NotAChild")

child_existence_required(h, self, child, body) ==
    IF has_as_child(h, self, name[child]) THEN body ELSE Raise(h, "NotAChild")

first_child(h, self) ==
    children_required(h, self, __next__(__iter__(h, self), self))

cmap_set(h, self, node) ==
    [h EXCEPT !._cmap[self] = DictSet(h._cmap[self], name[node], node)]

cmap_pop(h, self, node) ==
    IF name[node] \in DOMAIN h._cmap[self]
    THEN [h EXCEPT !._cmap[self] = DictPop(h._cmap[self], name[node])]
    ELSE Raise(h, "KeyError")

\* insert_before that registers new in the index before it looks at ref.
insert_before_registers_first(h, self, new, ref) ==
    LET h0 == cmap_set(h, self, new)
    IN  IF ref = None
        THEN Return(children_append(h0, self, new), new)
        ELSE IF has_as_child(h, self, name[ref])
        THEN Return(children_insert_before(h0, self, ref, new), new)
        ELSE Raise(h0, "NotAChild")

insert_before(h, self, new, ref) ==
    IF ref = None
    THEN Return(cmap_set(children_append(h, self, new), self, new), new)
    ELSE IF has_as_child(h, self, name[ref])
    THEN Return(cmap_set(children_insert_before(h, self, ref, new), self, new),
                new)
    ELSE Raise(h, "NotAChild")

\* replace_child that deletes old before it inserts new before old.
replace_child_body_deletes_first(h, self, old, new) ==
    LET h1 == children_delete(h, self, old)
        h2 == IF h1.exc # "none" THEN h1 ELSE cmap_pop(h1, self, old)
        h3 == IF h2.exc # "none" THEN h2
              ELSE cmap_set(children_insert_before(h2, self, old, new), self, new)
    IN  IF h3.exc # "none" THEN h3 ELSE Return(h3, old)

replace_child_body(h, self, old, new) ==
    LET h1 == cmap_set(children_insert_before(h, self, old, new), self, new)
        h2 == children_delete(h1, self, old)
        h3 == IF h2.exc # "none" THEN h2 ELSE cmap_pop(h2, self, old)
    IN  IF h3.exc # "none" THEN h3 ELSE Return(h3, old)

replace_child(h, self, old, new) ==
    child_existence_required(h, self, old, replace_child_body(h, self, old, new))

remove_child_body(h, self, child) ==
    LET h1 == children_delete(h, self, child)
        h2 == IF h1.exc # "none" THEN h1 ELSE cmap_pop(h1, self, child)
    IN  IF h2.exc # "none" THEN h2 ELSE Return(h2, child)

remove_child(h, self, child) ==
    child_existence_required(h, self, child, remove_child_body(h, self, child))

-----------------------------------------------------------------------------
\* What iterating self.children yields: head, head.next, ... up to None.  A
\* list with a cycle never ends; the walk is cut after one step more than
\* there are objects, so a longer result than the number of objects means
\* the iteration does not terminate.
RECURSIVE Walk(_, _, _)
Walk(nx, cur, fuel) ==
    IF cur = None \/ fuel = 0 THEN <<>>
    ELSE <<cur>> \o Walk(nx, nx[cur], fuel - 1)

iterate(h, self) ==
    Walk(h.next, h.head[self], Cardinality(DOMAIN h.next) + 1)

Range(s) == {s[i] : i \in DOMAIN s}

-----------------------------------------------------------------------------
\* The state machine

NoCall == [op |-> "none", self |-> None, a |-> None, b |-> None,
           ret |-> None, exc |-> "none"]

Init ==
    /\ node_type = <<>>
    /\ _count = 0
    /\ name = <<>>
    /\ parent = <<>>
    /\ prev = <<>>
    /\ next = <<>>
    /\ head = <<>>
    /\ tail = <<>>
    /\ _tmp_head = <<>>
    /\ _cmap = <<>>
    /\ last = NoCall
    /\ calls = 0

\* The state after a method that produced heap r.
Commit(r, op, self, a, b) ==
    /\ parent' = r.parent
    /\ prev' = r.prev
    /\ next' = r.next
    /\ head' = r.head
    /\ tail' = r.tail
    /\ _tmp_head' = r._tmp_head
    /\ _cmap' = r._cmap
    /\ last' = [op |-> op, self |-> self, a |-> a, b |-> b,
                ret |-> r.ret, exc |-> r.exc]
    /\ calls' = calls + 1
    /\ UNCHANGED <<node_type, _count, name>>

\* Node(node_type=type, parent=par): Node.__init__
NewNode(type, par) ==
    LET id == _count + 1
    IN  /\ node_type' = Append(node_type, type)
        /\ name' = Append(name, make_name(_count))
        /\ _count' = _count + 1
        /\ parent' = Append(parent, par)
        /\ prev' = Append(prev, None)
        /\ next' = Append(next, None)
        /\ head' = Append(head, None)
        /\ tail' = Append(tail, None)
        /\ _tmp_head' = Append(_tmp_head, Unset)
        /\ _cmap' = Append(_cmap, EmptyDict)
        /\ last' = [op |-> "Node", self |-> id, a |-> type, b |-> par,
                    ret |-> None, exc |-> "none"]
        /\ UNCHANGED calls

InsertBefore(self, new, ref) ==
    Commit(insert_before(Heap, self, new, ref), "insert_before", self, new, ref)

ReplaceChild(self, old, new) ==
    Commit(replace_child(Heap, self, old, new), "replace_child", self, old, new)

RemoveChild(self, child) ==
    Commit(remove_child(Heap, self, child), "remove_child", self, child, None)

FirstChild(self) ==
    Commit(first_child(Heap, self), "first_child", self, None, None)

\* Any use of the API: every object as receiver and as argument.
Next ==
    \/ /\ _count < MaxNodes
       /\ \E par \in (Nodes \cap (1..MaxParentArg)) \cup {None} :
             NewNode(ELEMENT, par)
    \/ /\ calls < MaxCalls
       /\ \E self \in Nodes, new \in Nodes, ref \in Nodes \cup {None} :
             InsertBefore(self, new, ref)
    \/ /\ calls < MaxCalls
       /\ \E self \in Nodes, old \in Nodes, new \in Nodes :
             ReplaceChild(self, old, new)
    \/ /\ calls < MaxCalls
       /\ \E self \in Nodes, child \in Nodes : RemoveChild(self, child)
    \/ /\ calls < MaxCalls
       /\ \E self \in Nodes : FirstChild(self)

Spec == Init /\ [][Next]_vars

\* A node that is a child of no node: in no index and in no child list.
Unattached(h, n) ==
    \A q \in DOMAIN h.head :
        /\ ~ has_as_child(h, q, name[n])
        /\ n \notin Range(iterate(h, q))

\* The nodes a document's children are managed through.
Documents == {n \in Nodes : node_type[n] = DOCUMENT}

\* A document and the elements made for it: the first object constructed is
\* the document, and the caller manages its children, only ever attaching
\* nodes that are unattached.  The reference, old and child arguments are
\* arbitrary, so the calls that raise NotAChild are included.
TreeNext ==
    \/ /\ _count < MaxTreeNodes
       /\ NewNode(IF _count = 0 THEN DOCUMENT ELSE ELEMENT, None)
    \/ /\ calls < MaxTreeCalls
       /\ \E self \in Documents,
             new \in {n \in Nodes : Unattached(Heap, n)},
             ref \in Nodes \cup {None} :
             InsertBefore(self, new, ref)
    \/ /\ calls < MaxTreeCalls
       /\ \E self \in Documents, old \in Nodes,
             new \in {n \in Nodes : Unattached(Heap, n)} :
             ReplaceChild(self, old, new)
    \/ /\ calls < MaxTreeCalls
       /\ \E self \in Documents, child \in Nodes :
             RemoveChild(self, child)
    \/ /\ calls < MaxTreeCalls
       /\ \E self \in Documents : FirstChild(self)

TreeSpec == Init /\ [][TreeNext]_vars

\* iter(self.children): _childrenlist.__iter__, which returns the list.
Iter(self) ==
    Commit(Return(__iter__(Heap, self), self), "__iter__", self, None, None)

\* next(self.children): _childrenlist.__next__
NextChild(self) ==
    Commit(__next__(Heap, self), "__next__", self, None, None)

FetchChildByName(self, nm) ==
    Commit(Return(Heap, fetch_child_by_name(Heap, self, nm)),
           "fetch_child_by_name", self, nm, None)

\* The document of TreeNext, its children managed in the same way, and a
\* caller that also reads it: looks children up by name, takes first_child
\* and steps through the child list with iter() and next().
QueryNext ==
    \/ /\ _count < MaxQueryNodes
       /\ NewNode(IF _count = 0 THEN DOCUMENT ELSE ELEMENT, None)
    \/ /\ calls < MaxQueryCalls
       /\ \E self \in Documents,
             new \in {n \in Nodes : Unattached(Heap, n)},
             ref \in Nodes \cup {None} :
             InsertBefore(self, new, ref)
    \/ /\ calls < MaxQueryCalls
       /\ \E self \in Documents, old \in Nodes,
             new \in {n \in Nodes : Unattached(Heap, n)} :
             ReplaceChild(self, old, new)
    \/ /\ calls < MaxQueryCalls
       /\ \E self \in Documents, child \in Nodes :
             RemoveChild(self, child)
    \/ /\ calls < MaxQueryCalls
       /\ \E self \in Documents : FirstChild(self)
    \/ /\ calls < MaxQueryCalls
       /\ \E self \in Documents : Iter(self)
    \/ /\ calls < MaxQueryCalls
       /\ \E self \in Documents : NextChild(self)
    \/ /\ calls < MaxQueryCalls
       /\ \E self \in Documents, nm \in Range(name) :
             FetchChildByName(self, nm)

QuerySpec == Init /\ [][QueryNext]_vars

-----------------------------------------------------------------------------
\* Properties

\* The children of p as the list sees them and as the index sees them.
ListMembers(h, p) == Range(iterate(h, p))

IndexNames(h, p) == DOMAIN h._cmap[p]

\* p's child list and index are in the state the data model describes: the
\* iteration ends and repeats no node, it runs from head to tail, the prev
\* links mirror the next links, and the index holds exactly the members.
Consistent(h, p) ==
    LET s == iterate(h, p)
    IN  /\ Len(s) <= Cardinality(DOMAIN h.next)
        /\ \A i, j \in DOMAIN s : s[i] = s[j] => i = j
        /\ (h.head[p] = None) <=> (h.tail[p] = None)
        /\ s # <<>> => h.tail[p] = s[Len(s)] /\ h.prev[s[1]] = None
        /\ \A i \in 2..Len(s) : h.prev[s[i]] = s[i - 1]
        /\ IndexNames(h, p) = {name[c] : c \in Range(s)}
        /\ \A c \in Range(s) : h._cmap[p][name[c]] = c

\* s with x placed immediately before ref.
PlacedBefore(s, ref, x) ==
    LET i == CHOOSE k \in DOMAIN s : s[k] = ref
    IN  SubSeq(s, 1, i - 1) \o <<x>> \o SubSeq(s, i, Len(s))

\* s with x in the place of old.
PutInPlace(s, old, x) == [i \in DOMAIN s |-> IF s[i] = old THEN x ELSE s[i]]

\* s without c.
Without(s, c) == SelectSeq(s, LAMBDA x : x # c)

\* C1: for every node n, the names in n's child index are the names of the
\* nodes that iterating n.children yields.
IndexListConsistency ==
    \A n \in Nodes : IndexNames(Heap, n) = {name[c] : c \in ListMembers(Heap, n)}

\* C2: every child list is one doubly linked chain: head.prev and tail.next
\* are None, every member but the head is its predecessor's successor and
\* every member but the tail is its successor's predecessor.
DoublyLinkedConsistency ==
    \A p \in Nodes :
        /\ head[p] # None => prev[head[p]] = None
        /\ tail[p] # None => next[tail[p]] = None
        /\ \A c \in ListMembers(Heap, p) :
              /\ c # head[p] => prev[c] # None /\ next[prev[c]] = c
              /\ c # tail[p] => next[c] # None /\ prev[next[c]] = c

\* C3: head and tail of a child list are both None or both set, and both
\* None exactly when the list has no members.
HeadTailBothOrNeither ==
    \A p \in Nodes :
        /\ (head[p] = None) <=> (tail[p] = None)
        /\ isempty(Heap, p) <=> (ListMembers(Heap, p) = {})

\* C4: no node is in the child list, or in the child index, of two nodes.
SingleOwnership ==
    \A c \in Nodes : \A p, q \in Nodes :
        p # q =>
            /\ ~ (c \in ListMembers(Heap, p) /\ c \in ListMembers(Heap, q))
            /\ ~ (name[c] \in IndexNames(Heap, p) /\ name[c] \in IndexNames(Heap, q))

\* The latest call was method op and has ended (returned or raised).
Called(op) == last'.op = op /\ calls' = calls + 1

\* C5: replace_child, remove_child and insert_before with a reference raise
\* NotAChild exactly when the old / child / reference node is not in the
\* receiver's index; insert_before without a reference never raises it.
NotAChildExactly ==
    [][ /\ (Called("replace_child") \/ Called("remove_child")) =>
              (last'.exc = "NotAChild" <=>
                  name[last'.a] \notin DOMAIN _cmap[last'.self])
        /\ (Called("insert_before") /\ last'.b # None) =>
              (last'.exc = "NotAChild" <=>
                  name[last'.b] \notin DOMAIN _cmap[last'.self])
        /\ (Called("insert_before") /\ last'.b = None) =>
              last'.exc # "NotAChild"
      ]_vars

\* C5 witness: remove_child raised NotAChild for a node that is not in the
\* index of a receiver that has children.
NotAChildRaised ==
    /\ last.op = "remove_child"
    /\ last.exc = "NotAChild"
    /\ name[last.a] \notin IndexNames(Heap, last.self)
    /\ IndexNames(Heap, last.self) # {}

\* C6: a call that raises NotAChild changes no field of any object.
NoPartialMutation ==
    [][ last'.exc = "NotAChild" =>
            UNCHANGED <<node_type, _count, name, parent, prev, next, head,
                        tail, _tmp_head, _cmap>>
      ]_vars

\* C6 witness: insert_before raised NotAChild on a receiver with children.
InsertRaisedOnPopulated ==
    /\ last.op = "insert_before"
    /\ last.exc = "NotAChild"
    /\ Len(iterate(Heap, last.self)) >= 2
    /\ Consistent(Heap, last.self)

\* C7: on a consistent parent, inserting an unattached node before a child
\* puts it immediately before that child, inserting it without a reference
\* puts it last; the other children keep their order and new is returned.
OrderPreservation ==
    [][ ( /\ Called("insert_before")
          /\ Consistent(Heap, last'.self)
          /\ Unattached(Heap, last'.a)
          /\ last'.b # None => last'.b \in ListMembers(Heap, last'.self) )
        => /\ last'.exc = "none"
           /\ last'.ret = last'.a
           /\ iterate(Heap', last'.self) =
                 IF last'.b = None
                 THEN Append(iterate(Heap, last'.self), last'.a)
                 ELSE PlacedBefore(iterate(Heap, last'.self), last'.b, last'.a)
      ]_vars

\* C7 witness: insert_before has placed its node between two children.
InsertedInTheMiddle ==
    /\ last.op = "insert_before"
    /\ last.exc = "none"
    /\ LET s == iterate(Heap, last.self)
       IN  /\ Consistent(Heap, last.self)
           /\ \E i \in 2..(Len(s) - 1) : s[i] = last.a /\ s[i + 1] = last.b

\* C8: on a consistent parent, replacing a child by an unattached node
\* returns the child, puts the node in the child's position, leaves the
\* other children where they were, and the index holds new and not old.
ReplaceInPlace ==
    [][ ( /\ Called("replace_child")
          /\ Consistent(Heap, last'.self)
          /\ last'.a \in ListMembers(Heap, last'.self)
          /\ Unattached(Heap, last'.b) )
        => /\ last'.exc = "none"
           /\ last'.ret = last'.a
           /\ iterate(Heap', last'.self) =
                 PutInPlace(iterate(Heap, last'.self), last'.a, last'.b)
           /\ ~ has_as_child(Heap', last'.self, name[last'.a])
           /\ has_as_child(Heap', last'.self, name[last'.b])
      ]_vars

\* C8 witness: replace_child has put a node, no object's child before, in
\* the place of a child that had a child on either side.
ReplacedInTheMiddle ==
    /\ last.op = "replace_child"
    /\ last.exc = "none"
    /\ last.b # last.self
    /\ LET s == iterate(Heap, last.self)
       IN  /\ Consistent(Heap, last.self)
           /\ last.a \notin Range(s)
           /\ \E i \in 2..(Len(s) - 1) : s[i] = last.b

\* C9: on a consistent parent, removing a child returns it, deletes it from
\* the iteration order, keeps the other children in order, and neither
\* has_as_child nor fetch_child_by_name finds it any more.
RemoveDeletes ==
    [][ ( /\ Called("remove_child")
          /\ Consistent(Heap, last'.self)
          /\ last'.a \in ListMembers(Heap, last'.self) )
        => /\ last'.exc = "none"
           /\ last'.ret = last'.a
           /\ iterate(Heap', last'.self) =
                 Without(iterate(Heap, last'.self), last'.a)
           /\ ~ has_as_child(Heap', last'.self, name[last'.a])
           /\ fetch_child_by_name(Heap', last'.self, name[last'.a]) = None
      ]_vars

\* C9 witness: remove_child has removed a child from between two others
\* (the returned node still points at both).
RemovedFromTheMiddle ==
    /\ last.op = "remove_child"
    /\ last.exc = "none"
    /\ LET s == iterate(Heap, last.self)
       IN  /\ Consistent(Heap, last.self)
           /\ last.a \notin Range(s)
           /\ \E i \in 1..(Len(s) - 1) :
                 s[i] = prev[last.a] /\ s[i + 1] = next[last.a]

\* C10: reading first_child never raises: it returns the first node of the
\* iteration order, or None when there are no children.
FirstChildNeverFails ==
    [][ Called("first_child") =>
            /\ last'.exc = "none"
            /\ last'.ret = IF iterate(Heap, last'.self) = <<>> THEN None
                           ELSE iterate(Heap, last'.self)[1]
      ]_vars

\* C11: iterating a node's children with no mutation in between yields each
\* member once and stops after finitely many steps (no more than there are
\* objects), and a fresh iteration starts from the head again.
IterationTerminates ==
    \A p \in Nodes :
        LET s == iterate(Heap, p)
        IN  /\ Len(s) <= Cardinality(Nodes)
            /\ \A i, j \in DOMAIN s : s[i] = s[j] => i = j
            /\ __iter__(Heap, p)._tmp_head[p] = head[p]

\* C12: after insert_before or replace_child has succeeded, the parent of
\* new is the receiver.
InsertionSetsParent ==
    [][ /\ (Called("insert_before") /\ last'.exc = "none") =>
              parent'[last'.a] = last'.self
        /\ (Called("replace_child") /\ last'.exc = "none") =>
              parent'[last'.b] = last'.self
      ]_vars

\* C13: after remove_child or replace_child has returned the detached node,
\* that node's previous_sibling and next_sibling are None and it references
\* no node still in the receiver's child list.
DetachmentClearsLinkage ==
    [][ ( /\ Called("remove_child") \/ Called("replace_child")
          /\ last'.exc = "none" )
        => /\ prev'[last'.ret] = None
           /\ next'[last'.ret] = None
           /\ {prev'[last'.ret], next'[last'.ret]}
                  \cap ListMembers(Heap', last'.self) = {}
      ]_vars

\* C14: the shared counter only grows, a node constructed gets the counter's
\* value in its name, any two nodes have different names, and no step
\* changes the name of a node.
NameUniqueness ==
    [][ /\ _count' >= _count
        /\ \A n \in DOMAIN name : n \in DOMAIN name' /\ name'[n] = name[n]
        /\ \A n \in (DOMAIN name') \ (DOMAIN name) :
              name'[n] = <<"node", _count>> /\ _count' > _count
        /\ \A m, n \in DOMAIN name' : m # n => name'[m] # name'[n]
      ]_vars

\* C14 witness: several nodes exist and one of them has been inserted,
\* replaced and handed back.
NamedNodesInUse ==
    /\ _count >= 3
    /\ last.op = "replace_child"
    /\ last.exc = "none"
    /\ name[last.ret] # name[last.b]

\* The calls that read a node and are not meant to change it.
Queried ==
    \/ Called("fetch_child_by_name")
    \/ Called("first_child")
    \/ Called("__iter__")
    \/ Called("__next__")

\* C15: fetch_child_by_name never raises; it returns a node exactly when
\* has_as_child is true for the name, and the node returned has that name;
\* a second call made right after it, or after any number of reads, returns
\* the same result; has_as_child answers for a node as for its name.
LookupAgreesWithMembership ==
    [][ /\ Called("fetch_child_by_name") =>
              /\ last'.exc = "none"
              /\ (last'.ret # None) <=>
                     has_as_child(Heap, last'.self, last'.a)
              /\ last'.ret # None => name[last'.ret] = last'.a
              /\ fetch_child_by_name(Heap', last'.self, last'.a) = last'.ret
              /\ ( /\ last.op = "fetch_child_by_name"
                    /\ last.self = last'.self
                    /\ last.a = last'.a ) => last'.ret = last.ret
        /\ Queried =>
              \A p, n \in Nodes :
                  fetch_child_by_name(Heap', p, name[n])
                      = fetch_child_by_name(Heap, p, name[n])
        /\ \A p, n \in Nodes :
              has_as_child_node(Heap, p, n) = has_as_child(Heap, p, name[n])
      ]_vars

\* C15 witness: a lookup has found one of several children while an
\* iteration over the same node was in progress.
LookupFoundAChild ==
    /\ last.op = "fetch_child_by_name"
    /\ last.ret # None
    /\ name[last.ret] = last.a
    /\ Cardinality(IndexNames(Heap, last.self)) >= 2
    /\ _tmp_head[last.self] \in Nodes

\* C16: has_children is true exactly when has_as_child is true for some
\* name; in particular it is false once every inserted node is removed.
HasChildrenAgreesWithIndex ==
    \A p \in Nodes :
        has_children(Heap, p) <=>
            \E n \in Nodes : has_as_child(Heap, p, name[n])

\* What an iteration in progress over p.children has yet to yield.
Remaining(h, p) ==
    IF h._tmp_head[p] = Unset
    THEN << >>
    ELSE Walk(h.next, h._tmp_head[p], Cardinality(DOMAIN h.next) + 1)

\* C17: when an iteration over p.children is in progress (the call before
\* was its iter() or one of its next() steps), reading p.first_child or
\* starting a second iteration leaves what the first has yet to yield
\* unchanged.
QueriesKeepTheCursor ==
    [][ ( /\ Called("first_child") \/ Called("__iter__")
          /\ last.op \in {"__iter__", "__next__"}
          /\ last.exc = "none"
          /\ last.self = last'.self )
        => Remaining(Heap', last'.self) = Remaining(Heap, last'.self)
      ]_vars

\* C18: a call of insert_before, replace_child or remove_child on p leaves
\* the index and the iteration of every other node q as they were.
MutationsAreLocal ==
    [][ (Called("insert_before") \/ Called("replace_child")
            \/ Called("remove_child"))
        => \A q \in Nodes \ {last'.self} :
              /\ _cmap'[q] = _cmap[q]
              /\ iterate(Heap', q) = iterate(Heap, q)
      ]_vars

\* C19: if c.parent is p then c is a child of p: p.has_as_child(c) is true
\* and iterating p.children yields c; and once remove_child or replace_child
\* has handed c back, c.parent is no longer the receiver.
ParentImpliesMembership ==
    /\ \A c \in Nodes :
          parent[c] # None =>
              /\ has_as_child(Heap, parent[c], name[c])
              /\ c \in ListMembers(Heap, parent[c])
    /\ (last.op \in {"remove_child", "replace_child"} /\ last.exc = "none")
          => parent[last.ret] # last.self

\* C20: when remove_child has taken child c out of a consistent p, putting c
\* back where it was (insert_before with c's former next sibling as ref, or
\* with no ref when c was the tail) succeeds and gives p the iteration
\* order, index, head and tail it had before the removal.
RemoveReinsertRoundTrip ==
    [][ ( /\ Called("remove_child")
          /\ last'.exc = "none"
          /\ Consistent(Heap, last'.self) )
        => LET p == last'.self
               c == last'.a
               h2 == insert_before(Heap', p, c, next[c])
           IN  /\ h2.exc = "none"
               /\ iterate(h2, p) = iterate(Heap, p)
               /\ h2._cmap[p] = _cmap[p]
               /\ h2.head[p] = head[p]
               /\ h2.tail[p] = tail[p]
      ]_vars

\* C20 witness: the head of three children has been removed and still
\* points at its former next sibling, which now is the head; inserting it
\* before that sibling makes it the head of three children again.
RemovedHeadKeepsItsLinks ==
    /\ last.op = "remove_child"
    /\ last.exc = "none"
    /\ Consistent(Heap, last.self)
    /\ next[last.a] # None
    /\ next[last.a] = head[last.self]
    /\ LET h2 == insert_before(Heap, last.self, last.a, next[last.a])
       IN  /\ h2.exc = "none"
           /\ h2.head[last.self] = last.a
           /\ Len(iterate(h2, last.self)) = 3

====
